---------------------------- MODULE Spec2Model ----------------------------
(*************************************************************************)
(* A model of process_request/anchore_scan.go (kubevuln).                *)
(*                                                                       *)
(* Three parts of the file are modelled, each under its own              *)
(* specification over the same variables:                                *)
(*   Spec      concurrent GetAnchoreScanRes calls sharing the grype      *)
(*             configuration file and the mutex mutex_edit_conf;         *)
(*   SpecConv  AnchoreStructConversion applied to a decoded report;      *)
(*   SpecPkg   one pass of GetPackagesInLayer over the match details.    *)
(*************************************************************************)
EXTENDS Naturals, Sequences, FiniteSets

VARIABLES
    \* ---- concurrent scans (GetAnchoreScanRes) ----
    pc,               \* pc[s]: where scan s stands in GetAnchoreScanRes
    creds,            \* creds[s]: scanCmd.Credentials of scan s
    mutex_edit_conf,  \* holder of the mutex: a scan, or Free
    confFile,         \* registry.auth of <dir>/.grype/config.yaml, as decoded
    pathDecodes,      \* whether yaml.Unmarshal accepts the path text (set by the cwd)
    App,              \* App[s]: App.Registry.Auth local to Add/Remove of scan s
    cmdErr,           \* cmdErr[s]: err of cmd.Run()
    addErr,           \* addErr[s]: what Add... returned (the caller drops it)
    rmErr,            \* rmErr[s]: what Remove... returned (the caller drops it)
    ret,              \* ret[s]: what GetAnchoreScanRes returned
    confBefore,       \* confBefore[s]: the file's list when scan s began (history)
    runs,             \* runs[s]: how many times scan s started cmd.Run() (history)
    scanResults,      \* scanResults[s]: what GetAnchoreScanResults returned
    \* ---- AnchoreStructConversion ----
    report,           \* the decoded JSONReport
    convOut,          \* the call's outcome
    \* ---- GetPackagesInLayer ----
    packageManager,   \* "nil", or the handler's GetType()
    details,          \* the pass's match details, flattened in loop order
    idx,              \* next detail to visit
    featureToFileList,\* the pass's cache: package name -> files
    linuxPackage,     \* the single record the pass fills
    packages,         \* the pass's result
    queryLog,         \* readFileListForPackage calls issued so far (history)
    pkgPc             \* "loop" | "done" | "panic"

scanVars == <<pc, creds, mutex_edit_conf, confFile, pathDecodes, App, cmdErr,
              addErr, rmErr, ret, confBefore, runs, scanResults>>
convVars == <<report, convOut>>
pkgVars  == <<packageManager, details, idx, featureToFileList, linuxPackage,
              packages, queryLog, pkgPc>>
vars == <<scanVars, convVars, pkgVars>>

(*************************************************************************)
(* Bounds.                                                               *)
(*************************************************************************)
NumScans == 2
MaxLayers == 2
MaxMatches == 2
MaxLocations == 2
MaxDetails == 3

\* Sequences over S of length at most n.
SeqsUpTo(S, n) == UNION {[1..k -> S] : k \in 0..n}

(*************************************************************************)
(* Part 1: the credential-scoped scan.                                   *)
(*************************************************************************)
Scans == 1..NumScans
Free == 0

\* scanCmd.Credentials: nil, or a username and a password.
NoCreds == [present |-> FALSE, Username |-> "", Password |-> ""]
CredChoices ==
    { NoCreds,
      [present |-> TRUE, Username |-> "",   Password |-> "p1"],
      [present |-> TRUE, Username |-> "u1", Password |-> ""],
      [present |-> TRUE, Username |-> "u1", Password |-> "p1"] }

\* The mutant of HasCredentials that asks for a username or a password.
HasCredentialsEither(c) == c.present /\ (c.Username # "" \/ c.Password # "")

\* The condition of lines 403 and 407.
HasCredentials(c) == c.present /\ c.Username # "" /\ c.Password # ""

\* RegistryCredentials{Username: username, Password: password} (line 351).
RegistryCredentials(username, password) ==
    [Authority |-> "", Username |-> username, Password |-> password]

\* yaml.Marshal followed by yaml.Unmarshal of one RegistryCredentials: Username
\* and Password are tagged yaml:"-" (lines 86, 88), so neither is written to the
\* file, and an entry read back holds the empty string for both.
YamlRoundTripEntry(e) == [Authority |-> e.Authority, Username |-> "", Password |-> ""]

\* What the file holds of App.Registry.Auth after yaml.Marshal + WriteFile.
YamlMarshalAuth(auth) == [i \in DOMAIN auth |-> YamlRoundTripEntry(auth[i])]

\* The loop of lines 378-385: delete the first entry whose username and
\* password both match; entries before and after keep their order.
RECURSIVE RemoveFirstMatch(_, _, _)
RemoveFirstMatch(auth, username, password) ==
    IF auth = <<>> THEN <<>>
    ELSE IF username = Head(auth).Username /\ password = Head(auth).Password
         THEN Tail(auth)
         ELSE <<Head(auth)>> \o RemoveFirstMatch(Tail(auth), username, password)

\* ioutil.WriteFile: on success the file holds the new text; on failure it is
\* left as it was (open failed) or truncated (the write failed after O_TRUNC).
WriteOutcomes(new) ==
    { [ok |-> TRUE, file |-> new],
      [ok |-> FALSE, file |-> confFile],
      [ok |-> FALSE, file |-> <<>>] }

\* GetAnchoreScanResults has not returned.
NoResults == [state |-> "none", attributed |-> FALSE]

\* State after CreateAnchoreResourcesDirectoryAndFiles: the mutex exists and is
\* free, config.yaml holds Auth: []RegistryCredentials{}.
ScanInit ==
    /\ pc = [s \in Scans |-> "idle"]
    /\ creds = [s \in Scans |-> NoCreds]
    /\ mutex_edit_conf = Free
    /\ confFile = <<>>
    /\ pathDecodes \in BOOLEAN
    /\ App = [s \in Scans |-> <<>>]
    /\ cmdErr = [s \in Scans |-> FALSE]
    /\ addErr = [s \in Scans |-> FALSE]
    /\ rmErr = [s \in Scans |-> FALSE]
    /\ ret = [s \in Scans |-> "none"]
    /\ confBefore = [s \in Scans |-> <<>>]
    /\ runs = [s \in Scans |-> 0]
    /\ scanResults = [s \in Scans |-> NoResults]

\* GetAnchoreScanRes is entered (lines 397-403): with credentials the next
\* step is the injection, without them cmd.Run().
Start(s) ==
    /\ pc[s] = "idle"
    /\ UNCHANGED <<convVars, pkgVars, runs, scanResults>>
    /\ \E c \in CredChoices :
          /\ creds' = [creds EXCEPT ![s] = c]
          /\ pc' = [pc EXCEPT ![s] = IF HasCredentials(c) THEN "add_lock" ELSE "run"]
    /\ confBefore' = [confBefore EXCEPT ![s] = confFile]
    /\ UNCHANGED <<mutex_edit_conf, confFile, pathDecodes, App, cmdErr, addErr,
                   rmErr, ret>>

\* mutex_edit_conf.Lock() of Add... (line 339).
AddLock(s) ==
    /\ pc[s] = "add_lock"
    /\ UNCHANGED <<convVars, pkgVars, runs, scanResults>>
    /\ mutex_edit_conf = Free
    /\ mutex_edit_conf' = s
    /\ pc' = [pc EXCEPT ![s] = "add_read"]
    /\ UNCHANGED <<creds, confFile, pathDecodes, App, cmdErr, addErr, rmErr, ret,
                   confBefore>>

\* Lines 341-351. ioutil.ReadAll(strings.NewReader(path)) yields the bytes of
\* the path text itself, never the file's, and cannot fail. yaml.Unmarshal of
\* that text fails (a plain scalar does not decode into a struct) unless the
\* working directory makes it a YAML mapping; its keys are then no field of
\* Application and App stays the zero value. On failure: Unlock, return err.
AddDecode(s) ==
    /\ pc[s] = "add_read"
    /\ UNCHANGED <<convVars, pkgVars, runs, scanResults>>
    /\ IF pathDecodes
       THEN /\ App' = [App EXCEPT ![s] =
                          <<>> \o <<RegistryCredentials(creds[s].Username,
                                                        creds[s].Password)>>]
            /\ pc' = [pc EXCEPT ![s] = "add_write"]
            /\ UNCHANGED <<mutex_edit_conf, addErr>>
       ELSE /\ mutex_edit_conf' = Free
            /\ addErr' = [addErr EXCEPT ![s] = TRUE]
            /\ pc' = [pc EXCEPT ![s] = "run"]
            /\ UNCHANGED App
    /\ UNCHANGED <<creds, confFile, pathDecodes, cmdErr, rmErr, ret, confBefore>>

\* The mutant of AddWrite that forgets the Unlock before a return.
AddWriteNoUnlock(s) ==
    /\ pc[s] = "add_write"
    /\ UNCHANGED <<convVars, pkgVars, runs, scanResults>>
    /\ \E w \in WriteOutcomes(YamlMarshalAuth(App[s])) :
          /\ confFile' = w.file
          /\ addErr' = [addErr EXCEPT ![s] = ~w.ok]
    /\ pc' = [pc EXCEPT ![s] = "run"]
    /\ UNCHANGED <<mutex_edit_conf, creds, pathDecodes, App, cmdErr, rmErr, ret,
                   confBefore>>

\* Lines 352-360: Marshal, WriteFile, Unlock on both outcomes, return.
AddWrite(s) ==
    /\ pc[s] = "add_write"
    /\ UNCHANGED <<convVars, pkgVars, runs, scanResults>>
    /\ \E w \in WriteOutcomes(YamlMarshalAuth(App[s])) :
          /\ confFile' = w.file
          /\ addErr' = [addErr EXCEPT ![s] = ~w.ok]
    /\ mutex_edit_conf' = Free
    /\ pc' = [pc EXCEPT ![s] = "run"]
    /\ UNCHANGED <<creds, pathDecodes, App, cmdErr, rmErr, ret, confBefore>>

\* cmd.Run() begins (line 406): the external scanner is now executing.
RunStart(s) ==
    /\ pc[s] = "run"
    /\ UNCHANGED <<convVars, pkgVars, scanResults>>
    /\ pc' = [pc EXCEPT ![s] = "running"]
    /\ runs' = [runs EXCEPT ![s] = runs[s] + 1]
    /\ UNCHANGED <<creds, mutex_edit_conf, confFile, pathDecodes, App, cmdErr,
                   addErr, rmErr, ret, confBefore>>

\* The mutant of RunEnd that returns on a failed run before the removal.
RunEndSkipRemoval(s) ==
    /\ pc[s] = "running"
    /\ UNCHANGED <<convVars, pkgVars, runs, scanResults>>
    /\ \E e \in BOOLEAN :
          /\ cmdErr' = [cmdErr EXCEPT ![s] = e]
          /\ pc' = [pc EXCEPT ![s] =
                       IF HasCredentials(creds[s]) /\ ~e THEN "rm_lock" ELSE "ret"]
    /\ UNCHANGED <<creds, mutex_edit_conf, confFile, pathDecodes, App, addErr,
                   rmErr, ret, confBefore>>

\* cmd.Run() returns, failed or not (line 406); line 407 then sends a scan with
\* credentials to the removal whatever err is.
RunEnd(s) ==
    /\ pc[s] = "running"
    /\ UNCHANGED <<convVars, pkgVars, runs, scanResults>>
    /\ \E e \in BOOLEAN : cmdErr' = [cmdErr EXCEPT ![s] = e]
    /\ pc' = [pc EXCEPT ![s] = IF HasCredentials(creds[s]) THEN "rm_lock" ELSE "ret"]
    /\ UNCHANGED <<creds, mutex_edit_conf, confFile, pathDecodes, App, addErr,
                   rmErr, ret, confBefore>>

\* The mutant of RemoveLock that enters without waiting for the mutex.
RemoveLockNoWait(s) ==
    /\ pc[s] = "rm_lock"
    /\ UNCHANGED <<convVars, pkgVars, runs, scanResults>>
    /\ mutex_edit_conf' = s
    /\ pc' = [pc EXCEPT ![s] = "rm_read"]
    /\ UNCHANGED <<creds, confFile, pathDecodes, App, cmdErr, addErr, rmErr, ret,
                   confBefore>>

\* mutex_edit_conf.Lock() of Remove... (line 366).
RemoveLock(s) ==
    /\ pc[s] = "rm_lock"
    /\ UNCHANGED <<convVars, pkgVars, runs, scanResults>>
    /\ mutex_edit_conf = Free
    /\ mutex_edit_conf' = s
    /\ pc' = [pc EXCEPT ![s] = "rm_read"]
    /\ UNCHANGED <<creds, confFile, pathDecodes, App, cmdErr, addErr, rmErr, ret,
                   confBefore>>

\* The mutant of RemoveDecode that forgets the Unlock of line 375.
RemoveDecodeNoUnlock(s) ==
    /\ pc[s] = "rm_read"
    /\ UNCHANGED <<convVars, pkgVars, runs, scanResults>>
    /\ IF pathDecodes
       THEN /\ App' = [App EXCEPT ![s] =
                          RemoveFirstMatch(<<>>, creds[s].Username, creds[s].Password)]
            /\ pc' = [pc EXCEPT ![s] = "rm_write"]
            /\ UNCHANGED <<mutex_edit_conf, rmErr>>
       ELSE /\ rmErr' = [rmErr EXCEPT ![s] = TRUE]
            /\ pc' = [pc EXCEPT ![s] = "ret"]
            /\ UNCHANGED <<mutex_edit_conf, App>>
    /\ UNCHANGED <<creds, confFile, pathDecodes, cmdErr, addErr, ret, confBefore>>

\* Lines 368-385: as in Add, the bytes decoded are the path text's; a decoded
\* App is the zero value, over which the loop then runs.
RemoveDecode(s) ==
    /\ pc[s] = "rm_read"
    /\ UNCHANGED <<convVars, pkgVars, runs, scanResults>>
    /\ IF pathDecodes
       THEN /\ App' = [App EXCEPT ![s] =
                          RemoveFirstMatch(<<>>, creds[s].Username, creds[s].Password)]
            /\ pc' = [pc EXCEPT ![s] = "rm_write"]
            /\ UNCHANGED <<mutex_edit_conf, rmErr>>
       ELSE /\ mutex_edit_conf' = Free
            /\ rmErr' = [rmErr EXCEPT ![s] = TRUE]
            /\ pc' = [pc EXCEPT ![s] = "ret"]
            /\ UNCHANGED App
    /\ UNCHANGED <<creds, confFile, pathDecodes, cmdErr, addErr, ret, confBefore>>

\* Lines 386-394: Marshal, WriteFile, Unlock on both outcomes, return.
RemoveWrite(s) ==
    /\ pc[s] = "rm_write"
    /\ UNCHANGED <<convVars, pkgVars, runs, scanResults>>
    /\ \E w \in WriteOutcomes(YamlMarshalAuth(App[s])) :
          /\ confFile' = w.file
          /\ rmErr' = [rmErr EXCEPT ![s] = ~w.ok]
    /\ mutex_edit_conf' = Free
    /\ pc' = [pc EXCEPT ![s] = "ret"]
    /\ UNCHANGED <<creds, pathDecodes, App, cmdErr, addErr, ret, confBefore>>

\* The mutant of Return that hands back the report whatever cmd.Run() said.
ReturnReportAlways(s) ==
    /\ pc[s] = "ret"
    /\ UNCHANGED <<convVars, pkgVars, runs, scanResults>>
    /\ ret' = [ret EXCEPT ![s] = "report"]
    /\ pc' = [pc EXCEPT ![s] = "done"]
    /\ UNCHANGED <<creds, mutex_edit_conf, confFile, pathDecodes, App, cmdErr,
                   addErr, rmErr, confBefore>>

\* Lines 410-415: the error of cmd.Run() alone decides what is returned.
Return(s) ==
    /\ pc[s] = "ret"
    /\ UNCHANGED <<convVars, pkgVars, runs, scanResults>>
    /\ ret' = [ret EXCEPT ![s] = IF cmdErr[s] THEN "error" ELSE "report"]
    /\ pc' = [pc EXCEPT ![s] = "done"]
    /\ UNCHANGED <<creds, mutex_edit_conf, confFile, pathDecodes, App, cmdErr,
                   addErr, rmErr, confBefore>>

\* Lines 555-571, after GetAnchoreScanRes has returned: its error is returned
\* as it is, without a call of AnchoreStructConversion; otherwise the report is
\* handed to AnchoreStructConversion, whose outcome (the layers or a panic, it
\* returns no error) is that of Part 2.
GetAnchoreScanResults(s) ==
    /\ pc[s] = "done"
    /\ scanResults[s].state = "none"
    /\ scanResults' = [scanResults EXCEPT ![s] =
                          IF ret[s] = "error"
                          THEN [state |-> "error", attributed |-> FALSE]
                          ELSE [state |-> "converted", attributed |-> TRUE]]
    /\ UNCHANGED <<pc, creds, mutex_edit_conf, confFile, pathDecodes, App, cmdErr,
                   addErr, rmErr, ret, confBefore, runs, convVars, pkgVars>>

ScanNext ==
    \E s \in Scans :
        \/ Start(s)
        \/ AddLock(s)
        \/ AddDecode(s)
        \/ AddWrite(s)
        \/ RunStart(s)
        \/ RunEnd(s)
        \/ RemoveLock(s)
        \/ RemoveDecode(s)
        \/ RemoveWrite(s)
        \/ Return(s)
        \/ GetAnchoreScanResults(s)

(*************************************************************************)
(* Part 2: AnchoreStructConversion.                                      *)
(*                                                                       *)
(* source.target is an interface{} holding whatever the JSON held, so a  *)
(* report records the shape of each value the code type-asserts: the     *)
(* target (a map or not), its "layers" (a list, missing, or something    *)
(* else), each layer's "digest", "manifestDigest" and "userInput" (a     *)
(* string or not). A failed type assertion x.(T) panics.                 *)
(*************************************************************************)
NotAString == "<not-a-string>"
LayerDigests == {"sha256:aaa", "sha256:bbb"}

\* The fix data and identity of a match (Match.Vulnerability, Match.Artifact).
MatchKinds ==
    { [ID |-> "CVE-1", Name |-> "curl", Versions |-> <<>>, State |-> "not-fixed"],
      [ID |-> "CVE-2", Name |-> "zlib", Versions |-> <<"1.2.3", "1.2.4">>,
       State |-> "fixed"] }

\* A match: its kind and the FileSystemID of each of its artifact's locations.
MatchSet ==
    { [ID |-> k.ID, Name |-> k.Name, Versions |-> k.Versions, State |-> k.State,
       Locations |-> l] :
      k \in MatchKinds, l \in SeqsUpTo(LayerDigests, MaxLocations) }

SourceShapes == {"absent", "target_not_map", "layers_missing", "layers_not_list", "ok"}

\* A report: the shape of source.target, its layers (each the layer's digest,
\* or NotAString), manifestDigest, userInput, and the matches.
Report(sh, ls, md, ui, ms) ==
    [Source |-> sh, layers |-> ls, manifestDigest |-> md, userInput |-> ui,
     Matches |-> ms]

Panic == [state |-> "panic", err |-> "nil", layersList |-> <<>>]

\* The mutant of Vulnerability that reports the last fix version.
VulnerabilityLastFix(match, r) ==
    [ Name |-> match.ID,
      ImgHash |-> r.manifestDigest,
      ImgTag |-> r.userInput,
      RelatedPackageName |-> match.Name,
      Fixes |-> << [ Name |-> match.State,
                     ImgTag |-> r.userInput,
                     Version |-> IF Len(match.Versions) # 0
                                 THEN match.Versions[Len(match.Versions)]
                                 ELSE "" ] >> ]

\* Lines 513-541: the record built for a match found in a layer.
Vulnerability(match, r) ==
    [ Name |-> match.ID,
      ImgHash |-> r.manifestDigest,
      ImgTag |-> r.userInput,
      RelatedPackageName |-> match.Name,
      Fixes |-> << [ Name |-> match.State,
                     ImgTag |-> r.userInput,
                     Version |-> IF Len(match.Versions) # 0
                                 THEN match.Versions[1] ELSE "" ] >> ]

\* The mutant of ScanLocations without the break of line 543.
RECURSIVE ScanLocationsNoBreak(_, _, _, _)
ScanLocationsNoBreak(match, r, digest, i) ==
    IF i > Len(match.Locations) THEN [panic |-> FALSE, vulns |-> <<>>]
    ELSE IF match.Locations[i] = digest
         THEN IF r.manifestDigest = NotAString \/ r.userInput = NotAString
              THEN [panic |-> TRUE, vulns |-> <<>>]
              ELSE LET rest == ScanLocationsNoBreak(match, r, digest, i + 1)
                   IN  [panic |-> rest.panic,
                        vulns |-> <<Vulnerability(match, r)>> \o rest.vulns]
         ELSE ScanLocationsNoBreak(match, r, digest, i + 1)

\* Lines 511-545: the loop over one match's locations from location i on. The
\* first location in the layer emits the record and breaks; building the
\* record asserts manifestDigest and userInput to be strings.
RECURSIVE ScanLocations(_, _, _, _)
ScanLocations(match, r, digest, i) ==
    IF i > Len(match.Locations) THEN [panic |-> FALSE, vulns |-> <<>>]
    ELSE IF match.Locations[i] = digest
         THEN IF r.manifestDigest = NotAString \/ r.userInput = NotAString
              THEN [panic |-> TRUE, vulns |-> <<>>]
              ELSE [panic |-> FALSE, vulns |-> <<Vulnerability(match, r)>>]
         ELSE ScanLocations(match, r, digest, i + 1)

\* Lines 510-546: the loop over the matches from match j on, for one layer.
RECURSIVE ScanMatches(_, _, _, _)
ScanMatches(r, digest, j, vulns) ==
    IF j > Len(r.Matches) THEN [panic |-> FALSE, vulns |-> vulns]
    ELSE LET one == ScanLocations(r.Matches[j], r, digest, 1)
         IN  IF one.panic THEN [panic |-> TRUE, vulns |-> <<>>]
             ELSE ScanMatches(r, digest, j + 1, vulns \o one.vulns)

\* The mutant of AppendLayer that keeps only the layers with findings.
AppendLayerWithFindings(layersList, scanRes) ==
    IF scanRes.Vulnerabilities = <<>> THEN layersList
    ELSE Append(layersList, scanRes)

\* Line 548.
AppendLayer(layersList, scanRes) == Append(layersList, scanRes)

\* Lines 502-549: the loop over the layers from layer k on.
RECURSIVE ScanLayers(_, _, _, _)
ScanLayers(r, k, parentLayerHash, layersList) ==
    IF k > Len(r.layers)
    THEN [state |-> "returned", err |-> "nil", layersList |-> layersList]
    ELSE IF r.layers[k] = NotAString THEN Panic
    ELSE LET found == ScanMatches(r, r.layers[k], 1, <<>>)
         IN  IF found.panic THEN Panic
             ELSE ScanLayers(r, k + 1, r.layers[k],
                             AppendLayer(layersList,
                                 [ LayerHash |-> r.layers[k],
                                   ParentLayerHash |-> parentLayerHash,
                                   Vulnerabilities |-> found.vulns ]))

\* The mutant of AnchoreStructConversion without the nil check of line 497.
AnchoreStructConversionNoSourceCheck(r) ==
    IF r.Source \in {"absent", "target_not_map", "layers_missing", "layers_not_list"}
    THEN Panic
    ELSE ScanLayers(r, 1, "", <<>>)

\* Lines 494-553. The only error value ever returned is nil.
AnchoreStructConversion(r) ==
    IF r.Source = "absent"
    THEN [state |-> "returned", err |-> "nil", layersList |-> <<>>]
    ELSE IF r.Source \in {"target_not_map", "layers_missing", "layers_not_list"}
    THEN Panic
    ELSE ScanLayers(r, 1, "", <<>>)

NotCalled == [state |-> "none", err |-> "nil", layersList |-> <<>>]

\* The reports AnchoreStructConversion is applied to: a target of the right
\* shape whose layers may lack a string digest, or whose manifestDigest or
\* userInput is no string, and the targets that are no map or have no list of
\* layers (which have no layer entries to enumerate).
ConvInit ==
    /\ \E ms \in SeqsUpTo(MatchSet, MaxMatches) :
          \/ \E ls \in SeqsUpTo(LayerDigests \cup {NotAString}, MaxLayers) :
                report = Report("ok", ls, "sha256:mmm", "img:tag", ms)
          \/ \E ls \in SeqsUpTo(LayerDigests, MaxLayers),
                strs \in {<<NotAString, "img:tag">>, <<"sha256:mmm", NotAString>>} :
                report = Report("ok", ls, strs[1], strs[2], ms)
          \/ \E sh \in SourceShapes \ {"ok"} :
                report = Report(sh, <<>>, "sha256:mmm", "img:tag", ms)
    /\ convOut = NotCalled

\* One call of AnchoreStructConversion on the report.
Convert ==
    /\ convOut.state = "none"
    /\ convOut' = AnchoreStructConversion(report)
    /\ UNCHANGED <<report, scanVars, pkgVars>>

(*************************************************************************)
(* Part 3: GetPackagesInLayer.                                           *)
(*                                                                       *)
(* The two loops of lines 440-441 visit every match detail of every      *)
(* match in order and the body reads nothing else of the match, so the   *)
(* pass runs over the details as one sequence. A detail is the package   *)
(* name found in SearchedBy, NoName when SearchedBy, "package" or "name" *)
(* is nil (lines 442, 445, 447), or BadShape when one of the three type  *)
(* assertions of lines 444-448 fails.                                    *)
(*************************************************************************)
PackageNames == {"libfoo1", "curl"}
NoName == "<nil>"
BadShape == "<bad-shape>"
DetailItems == PackageNames \cup {NoName, BadShape}

\* packageManager: nil, or a handler with this GetType().
ManagerChoices == {"nil", "dpkg", "rpm"}

EmptyMap == [n \in {} |-> <<>>]

\* var pkgResolved map[string][]string (line 434): declared, never assigned,
\* so it is the nil map throughout the pass.
pkgResolved == EmptyMap

\* What readFileListForPackage may answer: a file list and an error. A nil list
\* together with an error is replaced by an empty list (lines 452-455) before
\* it is read, so it is drawn here as the empty list.
FileLists == { <<>>, <<"/bin/a">>, <<"/lib/b", "/lib/c">> }
Answers == [files : FileLists, err : BOOLEAN]

\* Line 458: the remap branch is taken on an error, for dpkg, for a mapped name.
RemapTaken(name, a) ==
    a.err /\ name \in DOMAIN pkgResolved /\ packageManager = "dpkg"

\* The answers to the queries of the loop of lines 459-464, one per real name.
RemapAnswers(name, a) ==
    IF RemapTaken(name, a) THEN [1..Len(pkgResolved[name]) -> Answers] ELSE {<<>>}

\* Lines 459-464: append the files of every sub-query that did not fail.
RECURSIVE AppendRemapped(_, _, _)
AppendRemapped(fileList, subs, i) ==
    IF i > Len(subs) THEN fileList
    ELSE AppendRemapped(IF subs[i].err THEN fileList ELSE fileList \o subs[i].files,
                        subs, i + 1)

\* Lines 450-469: the file list held at line 471.
ResolvedFileList(name, a, subs) ==
    IF RemapTaken(name, a) THEN AppendRemapped(a.files, subs, 1) ELSE a.files

\* Lines 419-428.
convertToPkgFiles(fileList) == [i \in DOMAIN fileList |-> [Filename |-> fileList[i]]]

\* The calls of readFileListForPackage one resolution issues, in order.
QueriesOf(name, a, subs) ==
    << [name |-> name, primary |-> TRUE, for |-> name, answer |-> a,
        resolved |-> ResolvedFileList(name, a, subs)] >>
    \o [i \in DOMAIN subs |->
          [name |-> pkgResolved[name][i], primary |-> FALSE, for |-> name,
           answer |-> subs[i], resolved |-> <<>>]]

\* The mutant of CacheStore that stores nothing.
CacheStoreNothing(cache, name, files) == cache

\* Line 475: featureToFileList[package_name] = Files.
CacheStore(cache, name, files) ==
    [n \in DOMAIN cache \cup {name} |-> IF n = name THEN files ELSE cache[n]]

PkgInit ==
    /\ packageManager \in ManagerChoices
    /\ details \in SeqsUpTo(DetailItems, MaxDetails)
    /\ idx = 1
    /\ featureToFileList = EmptyMap
    /\ linuxPackage = [PackageName |-> "", Files |-> <<>>]
    /\ packages = <<>>
    /\ queryLog = <<>>
    /\ pkgPc = "loop"

InLoop == pkgPc = "loop" /\ packageManager # "nil" /\ idx <= Len(details)

\* Lines 442, 445, 447: nothing to resolve in this detail.
SkipDetail ==
    /\ InLoop
    /\ details[idx] = NoName
    /\ idx' = idx + 1
    /\ UNCHANGED <<packageManager, details, featureToFileList, linuxPackage,
                   packages, queryLog, pkgPc, scanVars, convVars>>

\* Lines 444, 446, 448: a failed type assertion panics.
PanicDetail ==
    /\ InLoop
    /\ details[idx] = BadShape
    /\ pkgPc' = "panic"
    /\ UNCHANGED <<packageManager, details, idx, featureToFileList, linuxPackage,
                   packages, queryLog, scanVars, convVars>>

\* Lines 449, 480-482: the name is in the cache.
CacheHit ==
    /\ InLoop
    /\ details[idx] \in DOMAIN featureToFileList
    /\ linuxPackage' = [PackageName |-> details[idx],
                        Files |-> featureToFileList[details[idx]]]
    /\ idx' = idx + 1
    /\ UNCHANGED <<packageManager, details, featureToFileList, packages, queryLog,
                   pkgPc, scanVars, convVars>>

\* Lines 449-478, 482: the name is not in the cache: query, remap on an error,
\* and cache the list if it is not empty.
Resolve ==
    /\ InLoop
    /\ details[idx] \in PackageNames \ DOMAIN featureToFileList
    /\ \E a \in Answers : \E subs \in RemapAnswers(details[idx], a) :
          LET name == details[idx]
              fileList == ResolvedFileList(name, a, subs)
          IN  /\ queryLog' = queryLog \o QueriesOf(name, a, subs)
              /\ IF Len(fileList) > 0
                 THEN /\ linuxPackage' = [PackageName |-> name,
                                          Files |-> convertToPkgFiles(fileList)]
                      /\ featureToFileList' =
                            CacheStore(featureToFileList, name,
                                       convertToPkgFiles(fileList))
                 ELSE /\ linuxPackage' = [linuxPackage EXCEPT !.PackageName = name]
                      /\ UNCHANGED featureToFileList
    /\ idx' = idx + 1
    /\ UNCHANGED <<packageManager, details, packages, pkgPc, scanVars, convVars>>

\* The mutant of ReturnPackages that appends the record without a manager too.
ReturnPackagesAlwaysAppend ==
    /\ pkgPc = "loop"
    /\ packageManager = "nil" \/ idx > Len(details)
    /\ packages' = <<linuxPackage>>
    /\ pkgPc' = "done"
    /\ UNCHANGED <<packageManager, details, idx, featureToFileList, linuxPackage,
                   queryLog, scanVars, convVars>>

\* Lines 438, 488-491: with a manager the one record is appended after the
\* loops; without one the result stays empty.
ReturnPackages ==
    /\ pkgPc = "loop"
    /\ packageManager = "nil" \/ idx > Len(details)
    /\ packages' = IF packageManager = "nil" THEN <<>> ELSE <<linuxPackage>>
    /\ pkgPc' = "done"
    /\ UNCHANGED <<packageManager, details, idx, featureToFileList, linuxPackage,
                   queryLog, scanVars, convVars>>

(*************************************************************************)
(* The specifications.                                                   *)
(*************************************************************************)
\* The values the variables of a part hold while another part runs.
ScanIdle ==
    /\ pc = [s \in Scans |-> "idle"]
    /\ creds = [s \in Scans |-> NoCreds]
    /\ mutex_edit_conf = Free
    /\ confFile = <<>>
    /\ pathDecodes = FALSE
    /\ App = [s \in Scans |-> <<>>]
    /\ cmdErr = [s \in Scans |-> FALSE]
    /\ addErr = [s \in Scans |-> FALSE]
    /\ rmErr = [s \in Scans |-> FALSE]
    /\ ret = [s \in Scans |-> "none"]
    /\ confBefore = [s \in Scans |-> <<>>]
    /\ runs = [s \in Scans |-> 0]
    /\ scanResults = [s \in Scans |-> NoResults]

ConvIdle ==
    /\ report = Report("absent", <<>>, "sha256:mmm", "img:tag", <<>>)
    /\ convOut = NotCalled

PkgIdle ==
    /\ packageManager = "nil"
    /\ details = <<>>
    /\ idx = 1
    /\ featureToFileList = EmptyMap
    /\ linuxPackage = [PackageName |-> "", Files |-> <<>>]
    /\ packages = <<>>
    /\ queryLog = <<>>
    /\ pkgPc = "done"

Init == ScanInit /\ ConvIdle /\ PkgIdle
Next == ScanNext
Spec == Init /\ [][Next]_vars

\* The request of a scan that carries a username and a password.
StartCredentialed(s) == Start(s) /\ HasCredentials(creds'[s])

\* A step of GetAnchoreScanRes in a scan that has been requested: the code has
\* no loop, sync.Mutex hands the lock to a waiting goroutine once it is free,
\* and the external scanner is taken to terminate, so a requested scan that can
\* take a step eventually takes one. Whether a scan is requested at all is up
\* to the caller.
Proceed(s) ==
    \/ AddLock(s) \/ AddDecode(s) \/ AddWrite(s)
    \/ RunStart(s) \/ RunEnd(s)
    \/ RemoveLock(s) \/ RemoveDecode(s) \/ RemoveWrite(s)
    \/ Return(s)

\* Concurrent calls of GetAnchoreScanRes that all carry credentials and all
\* contend for the mutex.
NextLive == \E s \in Scans : StartCredentialed(s) \/ Proceed(s)
SpecLive == Init /\ [][NextLive]_vars /\ \A s \in Scans : WF_vars(Proceed(s))

InitConv == ScanIdle /\ ConvInit /\ PkgIdle
NextConv == Convert
SpecConv == InitConv /\ [][NextConv]_vars

InitPkg == ScanIdle /\ ConvIdle /\ PkgInit
NextPkg == SkipDetail \/ PanicDetail \/ CacheHit \/ Resolve \/ ReturnPackages
SpecPkg == InitPkg /\ [][NextPkg]_vars

(*************************************************************************)
(* Properties of AnchoreStructConversion (checked under SpecConv).       *)
(*************************************************************************)
Called == convOut.state # "none"
Returned == convOut.state = "returned"

\* Every value the code type-asserts has the asserted type.
WellFormed(r) ==
    /\ r.Source = "ok"
    /\ \A k \in DOMAIN r.layers : r.layers[k] # NotAString
    /\ r.manifestDigest # NotAString
    /\ r.userInput # NotAString

\* The report has a source and one of its asserted values has another type.
Malformed(r) == r.Source # "absent" /\ ~WellFormed(r)

\* Match m has a location in the layer with digest d.
SeenIn(m, d) == \E i \in DOMAIN m.Locations : m.Locations[i] = d

\* The matches seen in the layer with digest d, in report order.
MatchesSeenIn(r, d) == SelectSeq(r.Matches, LAMBDA m : SeenIn(m, d))

\* C1: a well-formed report with N layers yields exactly N entries, entry i
\* carrying the digest of layer i, its parentLayerHash being the layerHash of
\* entry i-1 ("" for the first), and a layer no match is seen in still has its
\* entry, with an empty vulnerability list.
C1_LayerChain ==
    (Called /\ WellFormed(report)) =>
        /\ Returned
        /\ Len(convOut.layersList) = Len(report.layers)
        /\ \A i \in 1..Len(report.layers) :
              /\ convOut.layersList[i].LayerHash = report.layers[i]
              /\ convOut.layersList[i].ParentLayerHash =
                    IF i = 1 THEN "" ELSE convOut.layersList[i - 1].LayerHash
              /\ (\A j \in DOMAIN report.Matches :
                        ~SeenIn(report.Matches[j], report.layers[i]))
                    => convOut.layersList[i].Vulnerabilities = <<>>

\* C1's case: two layers, the first without findings, the second with some.
C1_Witness ==
    /\ Returned /\ WellFormed(report)
    /\ Len(report.layers) = 2
    /\ Len(convOut.layersList) = 2
    /\ convOut.layersList[1].Vulnerabilities = <<>>
    /\ convOut.layersList[2].Vulnerabilities # <<>>
    /\ convOut.layersList[2].ParentLayerHash = report.layers[1]

\* C2: the vulnerability list of each layer's entry holds one record for each
\* match that has a location in that layer, however many of its locations name
\* the layer, and no record for any other match: it is the list of the records
\* of the matches seen in the layer. A match seen in K layers so has K
\* records, one per layer, and a match seen in no layer has none.
C2_OneRecordPerMatchAndLayer ==
    (Returned /\ report.Source = "ok") =>
        /\ Len(convOut.layersList) = Len(report.layers)
        /\ \A k \in 1..Len(report.layers) :
              LET seen == MatchesSeenIn(report, report.layers[k])
              IN  convOut.layersList[k].Vulnerabilities =
                     [j \in DOMAIN seen |-> Vulnerability(seen[j], report)]

\* C2's case: one match with two locations in the same layer, which has one
\* record there, and another match seen in two different layers and recorded
\* in both.
C2_Witness ==
    /\ Returned /\ WellFormed(report)
    /\ Len(report.layers) = 2 /\ report.layers[1] # report.layers[2]
    /\ Len(convOut.layersList) = 2
    /\ Len(report.Matches) = 2
    /\ report.Matches[1].Locations = <<report.layers[1], report.layers[1]>>
    /\ report.Matches[2].Locations = <<report.layers[2], report.layers[1]>>
    /\ Len(convOut.layersList[1].Vulnerabilities) = 2
    /\ Len(convOut.layersList[2].Vulnerabilities) = 1

\* C7: a report whose target is no map, whose layers are missing or no list,
\* one of whose layers has no string digest, or whose manifestDigest or
\* userInput is no string makes the call return a MalformedReportError: it
\* neither panics nor returns a layer list without error.
C7_MalformedReportError ==
    (Called /\ Malformed(report)) =>
        (Returned /\ convOut.err = "MalformedReportError")

(*************************************************************************)
(* Properties of the credential-scoped scan (checked under Spec).        *)
(*************************************************************************)
InInjection(s) == pc[s] \in {"add_read", "add_write"}
InRemoval(s) == pc[s] \in {"rm_read", "rm_write"}
Executing(s) == pc[s] = "running"
Quiescent == \A t \in Scans : pc[t] \in {"idle", "done"}
Alone(s) == \A t \in Scans \ {s} : pc[t] = "idle"

RemovalWriteFailed(t) == pathDecodes /\ rmErr[t]

C5_ConfigErrorSurfaced ==
    \A s \in Scans :
        (pc[s] = "done" /\ (addErr[s] \/ rmErr[s])) => ret[s] = "error"

\* C6: no two read-modify-write cycles on the configuration file overlap: at
\* most one scan is between the Lock and the Unlock of an injection or a
\* removal.
C6_OneMutationInFlight ==
    \A s, t \in Scans :
        (s # t) => ~((InInjection(s) \/ InRemoval(s)) /\ (InInjection(t) \/ InRemoval(t)))

\* C6's case: a scan is inside its removal while another waits for the mutex.
C6_Witness ==
    \E s, t \in Scans :
        /\ s # t
        /\ pc[s] = "rm_write"
        /\ pc[t] \in {"add_lock", "rm_lock"}

\* C10: with a non-empty username and password and no configuration I/O
\* error, while the external scanner executes (no other scan having run) the
\* file's credential list is the list from before the scan followed by one
\* entry carrying that username and password.
C10_EntryPresentDuringRun ==
    \A s \in Scans :
        (Executing(s) /\ HasCredentials(creds[s]) /\ ~addErr[s] /\ Alone(s))
            => confFile = confBefore[s] \o
                   <<RegistryCredentials(creds[s].Username, creds[s].Password)>>

\* C13: a report without a source converts to the empty layer list with a nil
\* error, whatever its matches are.
C13_AbsentSourceEmptyList ==
    (Called /\ report.Source = "absent") =>
        convOut = [state |-> "returned", err |-> "nil", layersList |-> <<>>]

\* C13's case: a report without a source and with two matches that have
\* locations has been converted.
C13_Witness ==
    /\ Returned /\ report.Source = "absent"
    /\ Len(report.Matches) = 2
    /\ \A j \in DOMAIN report.Matches : report.Matches[j].Locations # <<>>
    /\ convOut.layersList = <<>> /\ convOut.err = "nil"

\* C15: every record has one fix entry, whose version is the first of the fix
\* versions of its match, or "" when the match has none; no later fix version
\* of the match appears in it.
C15_FirstFixVersionOnly ==
    Returned =>
        \A k \in DOMAIN convOut.layersList :
            \A j \in DOMAIN convOut.layersList[k].Vulnerabilities :
                LET v == convOut.layersList[k].Vulnerabilities[j]
                IN  /\ Len(v.Fixes) = 1
                    /\ \A i \in DOMAIN report.Matches :
                          report.Matches[i].ID = v.Name =>
                              LET vs == report.Matches[i].Versions
                              IN  /\ v.Fixes[1].Version =
                                        IF vs = <<>> THEN "" ELSE vs[1]
                                  /\ \A n \in 2..Len(vs) :
                                        v.Fixes[1].Version # vs[n]

\* C15's case: one layer holds a record of a match with two fix versions,
\* carrying the first, and a record of a match with none, carrying "".
C15_Witness ==
    /\ Returned
    /\ \E k \in DOMAIN convOut.layersList :
          LET vulns == convOut.layersList[k].Vulnerabilities
          IN  /\ \E j \in DOMAIN vulns :
                    /\ vulns[j].Name = "CVE-2"
                    /\ vulns[j].Fixes[1].Version = "1.2.3"
              /\ \E j \in DOMAIN vulns :
                    /\ vulns[j].Name = "CVE-1"
                    /\ vulns[j].Fixes[1].Version = ""

\* The request has no credentials, or an empty username, or an empty password.
NoUsableCredentials(c) == ~c.present \/ c.Username = "" \/ c.Password = ""

\* C11: a scan whose request has no credentials, an empty username or an
\* empty password never takes the mutex and leaves the configuration file as
\* it is: no step of such a scan enters an injection or a removal, changes
\* the mutex or changes the file.
C11_NoCredentialsNoMutation ==
    [][\A s \in Scans :
          (pc'[s] # pc[s] /\ NoUsableCredentials(creds'[s])) =>
              /\ confFile' = confFile
              /\ mutex_edit_conf' = mutex_edit_conf
              /\ pc'[s] \in {"run", "running", "ret", "done"}]_vars

\* C11's case: a scan with a password and an empty username ran the scanner
\* and returned its report.
C11_Witness ==
    \E s \in Scans :
        /\ creds[s].present /\ creds[s].Username = "" /\ creds[s].Password # ""
        /\ pc[s] = "done" /\ ret[s] = "report"
        /\ Alone(s) /\ confFile = confBefore[s] /\ mutex_edit_conf = Free

\* cmd.Run() of scan s has been started.
PastRunStart(s) ==
    pc[s] \in {"running", "rm_lock", "rm_read", "rm_write", "ret", "done"}

\* C12: a scan starts the external scanner exactly once; when that execution
\* fails GetAnchoreScanRes returns the error and no report, and
\* GetAnchoreScanResults returns the error without converting anything.
C12_FailedRunIsTerminal ==
    \A s \in Scans :
        /\ runs[s] = (IF PastRunStart(s) THEN 1 ELSE 0)
        /\ (pc[s] = "done" /\ cmdErr[s]) => ret[s] = "error"
        /\ (scanResults[s].state # "none" /\ cmdErr[s]) =>
              (scanResults[s].state = "error" /\ ~scanResults[s].attributed)

\* C12's case: the scanner of a scan failed and the error came out of
\* GetAnchoreScanResults.
C12_Witness ==
    \E s \in Scans :
        /\ cmdErr[s] /\ runs[s] = 1
        /\ ret[s] = "error"
        /\ scanResults[s] = [state |-> "error", attributed |-> FALSE]

\* C19: a scan holds the mutex at no point outside its injection and its
\* removal, whichever way these returned, the mutex is free when no scan is
\* in flight, and every scan that was requested returns: a scan is requested
\* once and never leaves "done", so this is to say that again and again no
\* scan is in flight.
C19_LockReleasedAndScansReturn ==
    /\ [](\A s \in Scans :
             ~(InInjection(s) \/ InRemoval(s)) => mutex_edit_conf # s)
    /\ [](Quiescent => mutex_edit_conf = Free)
    /\ []<>Quiescent

\* C19's case: two scans with credentials have both returned, the removal of
\* one through a failed write and the other's after a successful one, and the
\* mutex is free.
C19_Witness ==
    \E s, t \in Scans :
        /\ s # t
        /\ HasCredentials(creds[s]) /\ HasCredentials(creds[t])
        /\ pc[s] = "done" /\ pc[t] = "done"
        /\ pathDecodes /\ rmErr[s] /\ ~rmErr[t] /\ ~addErr[t]
        /\ mutex_edit_conf = Free

\* Scan s takes the step in which its removal writes the file successfully.
RemovalWrites(s) == pc[s] = "rm_write" /\ pc'[s] = "ret" /\ ~rmErr'[s]

\* C18: a removal that writes the file leaves in it the list the file held
\* without the first entry whose username and password equal the given ones,
\* the other entries in their order; without such an entry the list is
\* unchanged.
C18_RemovalDeletesFirstMatchOnly ==
    [][\A s \in Scans :
          RemovalWrites(s) =>
              confFile' = RemoveFirstMatch(confFile, creds[s].Username,
                                           creds[s].Password)]_vars

\* The entry the injection of scan s put into the file, as the file holds it.
InjectedEntry(s) ==
    YamlRoundTripEntry(RegistryCredentials(creds[s].Username, creds[s].Password))

\* The file holds entry e.
InFile(e, file) == \E i \in DOMAIN file : file[i] = e

\* C20: while the scanner of a scan runs whose injection succeeded, the
\* removal of another scan with the same username and password does not take
\* the injected entry out of the file.
C20_InjectedEntrySurvivesOtherRemoval ==
    [][\A s \in Scans : \A t \in Scans \ {s} :
          ( /\ HasCredentials(creds[s]) /\ creds[t] = creds[s]
            /\ Executing(s) /\ ~addErr[s]
            /\ InFile(InjectedEntry(s), confFile)
            /\ RemovalWrites(t) )
          => InFile(InjectedEntry(s), confFile')]_vars

(*************************************************************************)
(* Properties of GetPackagesInLayer (checked under SpecPkg).             *)
(*************************************************************************)
\* The positions in queryLog of the primary queries for a name.
PrimaryQueries(name) ==
    {i \in DOMAIN queryLog : queryLog[i].primary /\ queryLog[i].name = name}

\* The number of details visited so far that carry the name.
Occurrences(name) == Cardinality({k \in 1..(idx - 1) : details[k] = name})

\* C8 as stated: whatever the package manager answers, the primary query for
\* a package name is issued at most once in a pass.
C8_AtMostOnePrimaryQuery ==
    \A n \in PackageNames : Cardinality(PrimaryQueries(n)) <= 1

\* C8 amended: once the resolution of a name has produced a non-empty file
\* list, no further primary query is issued for it: every primary query for a
\* name but the last resolved to an empty list, a cached name has the files of
\* its last query, and a visit of a cached name yields exactly those files.
C8_NoQueryAfterNonEmptyResolution ==
    /\ \A i, j \in DOMAIN queryLog :
          ( /\ i < j /\ queryLog[i].primary /\ queryLog[j].primary
            /\ queryLog[i].name = queryLog[j].name )
             => queryLog[i].resolved = <<>>
    /\ \A n \in DOMAIN featureToFileList :
          \E i \in PrimaryQueries(n) :
              /\ queryLog[i].resolved # <<>>
              /\ featureToFileList[n] = convertToPkgFiles(queryLog[i].resolved)
              /\ (idx > 1 /\ details[idx - 1] = n)
                    => linuxPackage.Files = convertToPkgFiles(queryLog[i].resolved)

\* C8's case: a name visited twice, the second visit being a cache hit.
C8_Witness ==
    \E n \in DOMAIN featureToFileList :
        /\ Occurrences(n) >= 2
        /\ Cardinality(PrimaryQueries(n)) = 1
        /\ idx > 1 /\ details[idx - 1] = n
        /\ linuxPackage.Files = featureToFileList[n]

\* The remap table of the scenario C9 describes.
RemapTable == [n \in {"libfoo1"} |-> <<"libfoo1-bin", "libfoo1-data">>]

\* The files of the sub-queries logged at positions from..to that did not fail.
RECURSIVE SuccessfulFiles(_, _)
SuccessfulFiles(from, to) ==
    IF from > to THEN <<>>
    ELSE (IF queryLog[from].answer.err THEN <<>> ELSE queryLog[from].answer.files)
         \o SuccessfulFiles(from + 1, to)

\* C9: when the primary query for a name fails or returns an empty list, the
\* manager's type is "dpkg" and the remap table maps the name, each real name
\* is queried in table order and the resolved file list is the concatenation
\* of the results of the sub-queries that succeeded; when the type is not
\* "dpkg" no remap query is issued.
C9_RemapFallback ==
    /\ \A i \in DOMAIN queryLog :
          LET q == queryLog[i]
              n == Len(RemapTable[q.name])
          IN  ( /\ q.primary
                /\ q.answer.err \/ q.answer.files = <<>>
                /\ packageManager = "dpkg"
                /\ q.name \in DOMAIN RemapTable )
              => /\ Len(queryLog) >= i + n
                 /\ \A k \in 1..n :
                       /\ ~queryLog[i + k].primary
                       /\ queryLog[i + k].name = RemapTable[q.name][k]
                 /\ q.resolved = SuccessfulFiles(i + 1, i + n)
    /\ packageManager # "dpkg" =>
          \A i \in DOMAIN queryLog : queryLog[i].primary

\* C14: without a package manager the pass issues no file-list query and
\* returns an empty result, whatever details the matches carry; it does not
\* read the details, so it cannot fail on them either.
C14_NilManagerEmptyResult ==
    packageManager = "nil" =>
        /\ queryLog = <<>>
        /\ pkgPc # "panic"
        /\ pkgPc = "done" => packages = <<>>

\* C14's case: a pass without a manager over details that name packages has
\* returned.
C14_Witness ==
    /\ packageManager = "nil" /\ pkgPc = "done"
    /\ \E i \in DOMAIN details : details[i] \in PackageNames
    /\ packages = <<>> /\ queryLog = <<>>

\* C16: when the pass has returned, a result record whose package was left
\* unresolved (its name has no entry in the cache, which holds every name
\* resolved with files) has no files.
C16_UnresolvedHasNoFiles ==
    (pkgPc = "done" /\ packageManager # "nil") =>
        \A i \in DOMAIN packages :
            packages[i].PackageName \in PackageNames \ DOMAIN featureToFileList
                => packages[i].Files = <<>>

\* C17: when the pass has returned, the result holds, for every name resolved
\* to a non-empty file list, an entry of that name with the files resolved for
\* it.
C17_EntryForEveryResolvedName ==
    (pkgPc = "done" /\ packageManager # "nil") =>
        \A n \in DOMAIN featureToFileList :
            \E i \in DOMAIN packages :
                /\ packages[i].PackageName = n
                /\ packages[i].Files = featureToFileList[n]

=============================================================================
